---- MODULE Spec2Model ----
(***************************************************************************)
(* Model of TEPS (Tool Engagement based Phase Segmentation),               *)
(* src/algo/teps.py, and of its caller in src/example.py.                  *)
(*                                                                         *)
(* Python floats are modelled as rationals <<numerator,denominator>> in    *)
(* lowest terms with a positive denominator. Each arithmetic operation of  *)
(* the code rounds its exact result to mant_dig significant bits, nearest  *)
(* with ties to even, as the float operations do; mant_dig = 0 stands for  *)
(* arithmetic without rounding.                                            *)
(***************************************************************************)
EXTENDS Integers, Sequences, FiniteSets, TLC

(***************************************************************************)
(* Bounds of the model.                                                    *)
(***************************************************************************)
\* the longest stream of samples fed to process_sample
MaxCalls == 5
\* ignore_start is drawn from 0..MaxIgnore
MaxIgnore == 1
\* hist_size is drawn from 1..MaxHist
MaxHist == 3

(***************************************************************************)
(* Rational arithmetic (the float operations of teps.py).                  *)
(***************************************************************************)
IAbs(n) == IF n < 0 THEN -n ELSE n

RECURSIVE GCD(_, _)
GCD(m, n) == IF n = 0 THEN m ELSE GCD(n, m % n)

LCM(m, n) == (m \div GCD(m, n)) * n

\* the rational n/d (d # 0) in lowest terms
Rat(n, d) ==
    LET g == GCD(IAbs(n), IAbs(d))
        s == IF d < 0 THEN -1 ELSE 1
    IN  <<(s * n) \div g, (s * d) \div g>>

\* an integer as a rational
R(n) == <<n, 1>>

RAdd(x, y) ==
    LET l == LCM(x[2], y[2])
    IN  Rat(x[1] * (l \div x[2]) + y[1] * (l \div y[2]), l)

RNeg(x) == <<-x[1], x[2]>>

RSub(x, y) == RAdd(x, RNeg(y))

RMul(x, y) ==
    LET g1 == GCD(IAbs(x[1]), y[2])
        g2 == GCD(IAbs(y[1]), x[2])
    IN  Rat((x[1] \div g1) * (y[1] \div g2), (x[2] \div g2) * (y[2] \div g1))

\* x / y, for y # 0
RDiv(x, y) == RMul(x, Rat(y[2], y[1]))

RAbs(x) == <<IAbs(x[1]), x[2]>>

RLt(x, y) ==
    LET l == LCM(x[2], y[2])
    IN  x[1] * (l \div x[2]) < y[1] * (l \div y[2])

RLe(x, y) == ~RLt(y, x)

RECURSIVE SeqSum(_)
SeqSum(s) == IF s = <<>> THEN R(0) ELSE RAdd(s[1], SeqSum(Tail(s)))

RECURSIVE SeqMin(_)
SeqMin(s) ==
    IF Len(s) = 1 THEN s[1]
    ELSE LET m == SeqMin(Tail(s)) IN IF RLt(m, s[1]) THEN m ELSE s[1]

RECURSIVE SeqMax(_)
SeqMax(s) ==
    IF Len(s) = 1 THEN s[1]
    ELSE LET m == SeqMax(Tail(s)) IN IF RLt(s[1], m) THEN m ELSE s[1]

(***************************************************************************)
(* State.                                                                  *)
(***************************************************************************)
VARIABLES
    \* configuration, set by TEPS.__init__ and never assigned again
    start_mean_air, start_mean_drill, ignore_start, init_mode,
    min_distance_threshold, hist_size, weights, factor,
    a_init, a_min, decay_factor,
    \* the number of significant bits of a float (sys.float_info.mant_dig),
    \* 0 for arithmetic without rounding
    mant_dig,
    \* the fields process_sample mutates
    air_cluster, drill_cluster, a, start_index, x_hist,
    \* the samples passed to process_sample so far, and what the last call returned
    stream, ret,
    \* the fields as the last call of process_sample found them
    before,
    \* a second TEPS instance, which is passed the samples the first is passed
    \* where the two are run side by side: its fields, and as ret what its
    \* last call returned
    other,
    \* the arguments and the result of a get_phase_label call
    last_state, treshold, feed, phase,
    \* where the get_phase_label call stands: "idle", "call" or "returned"
    label_pc

config == <<start_mean_air, start_mean_drill, ignore_start, init_mode,
            min_distance_threshold, hist_size, weights, factor,
            a_init, a_min, decay_factor, mant_dig>>

teps_vars == <<air_cluster, drill_cluster, a, start_index, x_hist, stream, ret,
               before, other>>

label_vars == <<last_state, treshold, feed, phase, label_pc>>

vars == <<config, teps_vars, label_vars>>

(***************************************************************************)
(* Float arithmetic: the exact result, rounded.                            *)
(***************************************************************************)
\* the integer nearest to n/d (n >= 0, d > 0), the even one of two
RoundHalfEven(n, d) ==
    LET q == n \div d
        r == n % d
    IN  IF 2 * r < d THEN q
        ELSE IF 2 * r > d THEN q + 1
        ELSE IF q % 2 = 0 THEN q ELSE q + 1

\* n/d * up/down rounded to mant_dig significant bits, for n, d > 0 and up,
\* down powers of 2: n/d is scaled by powers of 2 into 2^(mant_dig-1) ..
\* 2^mant_dig, rounded to an integer there and scaled back
RECURSIVE FlPos(_, _, _, _)
FlPos(n, d, up, down) ==
    IF n >= 2^mant_dig * d THEN FlPos(n, 2 * d, 2 * up, down)
    ELSE IF n < 2^(mant_dig - 1) * d THEN FlPos(2 * n, d, up, 2 * down)
    ELSE Rat(RoundHalfEven(n, d) * up, down)

\* the float nearest to the rational v
Nearest(v) ==
    IF mant_dig = 0 \/ v[1] = 0 THEN v
    ELSE IF v[1] < 0 THEN RNeg(FlPos(-v[1], v[2], 1, 1))
    ELSE FlPos(v[1], v[2], 1, 1)

\* the float operations: the operands are floats, the result is the float
\* nearest to the exact one
FAdd(x, y) == CHOOSE r \in { Nearest(RAdd(u, v)) : u \in {x}, v \in {y} } : TRUE

FSub(x, y) == CHOOSE r \in { Nearest(RSub(u, v)) : u \in {x}, v \in {y} } : TRUE

FMul(x, y) == CHOOSE r \in { Nearest(RMul(u, v)) : u \in {x}, v \in {y} } : TRUE

\* x / y, for y # 0
FDiv(x, y) == CHOOSE r \in { Nearest(RDiv(u, v)) : u \in {x}, v \in {y} } : TRUE

\* sum(s) of the floats of s onto start: one addition per element, from the
\* left
RECURSIVE sum_onto(_, _)
sum_onto(start, s) ==
    IF s = <<>> THEN start ELSE sum_onto(FAdd(start, s[1]), Tail(s))

sum(s) == sum_onto(R(0), s)

(***************************************************************************)
(* Values the configuration and the inputs are drawn from.                 *)
(***************************************************************************)
\* the torque samples passed to process_sample
Samples == {Rat(-2, 1), Rat(0, 1), Rat(1, 1)}

\* (start_mean_air, start_mean_drill, weights, (a_init, a_min, decay_factor),
\* factor): the seeds are triples read as (min, max, mean), the weights are
\* those of (mean, min, max) in the distance, 0 < a_min <= a_init,
\* 0 < decay_factor < 1, and factor is +1 or -1.
\* The first profile has the default seeds, weights and factor of __init__,
\* and a rate that decays 1/2, 1/4 and is then floored (1/8 < a_min = 1/5).
\* The second has seeds with min < mean < max, unequal weights, one of them
\* zero, a rate that decays 2/3, 1/3 onto a_min itself, and the opposite
\* polarity, its drill seed lying below its air seed all the same.
Profiles ==
    { << <<R(0), R(0), R(0)>>, <<Rat(-3, 2), Rat(-3, 2), Rat(-3, 2)>>,
         <<R(1), R(1), R(1)>>, <<Rat(1, 2), Rat(1, 5), Rat(1, 2)>>, 1 >>,
      << <<R(-1), R(1), R(0)>>, <<R(-3), R(-1), R(-2)>>,
         <<R(2), R(1), R(0)>>, <<Rat(2, 3), Rat(1, 3), Rat(1, 2)>>, -1 >> }

Modes == {"fixed", "min_distance"}

Thresholds == { Rat(1, 2) }

\* feed rates passed to get_phase_label, on both sides of 0 and of +-1000
Feeds == {-2000, -1001, -1000, -5, -1, 0, 1, 5, 1000, 1001, 2000}

(***************************************************************************)
(* TEPS.__init__                                                           *)
(***************************************************************************)
\* a cluster dictionary seeded from a (min, max, mean) triple
new_cluster(start_mean) ==
    [min |-> start_mean[1], max |-> start_mean[2], mean |-> start_mean[3],
     count |-> 0, sum |-> 0, ready |-> FALSE]

\* the exception __init__ raises: it stores its arguments unchecked and has
\* no raise statement, so there is none whatever the arguments
init_exc == "none"

\* what process_sample has returned: nothing before the first call
NoReturn == [exc |-> "nocall", p |-> 0, means |-> <<>>]

(***************************************************************************)
(* TEPS.update_step_size                                                   *)
(***************************************************************************)
\* as update_step_size, without the floor at a_min
update_step_size_no_floor(rate) ==
    IF RLt(a_min, rate) THEN FMul(rate, decay_factor) ELSE rate

\* as update_step_size, with a step that would pass below a_min left out
update_step_size_stop_above(rate) ==
    IF RLt(a_min, rate)
    THEN LET decayed == FMul(rate, decay_factor)
         IN  IF RLt(decayed, a_min) THEN rate ELSE decayed
    ELSE rate

update_step_size(rate) ==
    IF RLt(a_min, rate)
    THEN LET decayed == FMul(rate, decay_factor)
         IN  IF RLt(decayed, a_min) THEN a_min ELSE decayed
    ELSE rate

(***************************************************************************)
(* TEPS.compute_rolling_stats: <<x_min, x_max, x_mean>>, or <<>> for the   *)
(* (None, None, None) of an empty buffer.                                  *)
(***************************************************************************)
\* as compute_rolling_stats, with the least and the greatest sample exchanged
compute_rolling_stats_swapped(hist) ==
    IF Len(hist) = 0 THEN <<>>
    ELSE <<SeqMax(hist), SeqMin(hist), FDiv(sum(hist), R(Len(hist)))>>

compute_rolling_stats(hist) ==
    IF Len(hist) = 0 THEN <<>>
    ELSE <<SeqMin(hist), SeqMax(hist), FDiv(sum(hist), R(Len(hist)))>>

(***************************************************************************)
(* TEPS.compute_cluster_distance                                           *)
(***************************************************************************)
weight_sum == FAdd(FAdd(weights[1], weights[2]), weights[3])

\* the exception the distance computation raises, "none" when it returns
cluster_distance_error(stats) ==
    IF stats = <<>> THEN "TypeError"
    ELSE IF weight_sum = R(0) THEN "ZeroDivisionError"
    ELSE "none"

compute_cluster_distance(cluster, stats) ==
    LET x_min == stats[1]
        x_max == stats[2]
        x_mean == stats[3]
        mean_dist == RAbs(FSub(x_mean, cluster.mean))
        min_dist == RAbs(FSub(x_min, cluster.min))
        max_dist == RAbs(FSub(x_max, cluster.max))
    IN  FDiv(FAdd(FAdd(FMul(weights[1], mean_dist), FMul(weights[2], min_dist)),
                  FMul(weights[3], max_dist)),
             weight_sum)

(***************************************************************************)
(* TEPS.get_drill_or_clipped_cluster                                       *)
(***************************************************************************)
clipped_cluster(air) ==
    LET shift == FMul(R(2), RAbs(FSub(air.min, air.max)))
    IN  [mean |-> FAdd(air.mean, FMul(R(factor), shift)),
         max |-> FAdd(air.max, FMul(R(factor), shift)),
         min |-> FAdd(air.min, FMul(R(factor), shift))]

\* as use_clipped, with one of the two bounds being closer enough
use_clipped_either(air, drill) ==
    LET c == clipped_cluster(air)
    IN  \/ RLt(RAbs(FSub(c.min, air.min)), RAbs(FSub(c.min, drill.min)))
        \/ RLt(RAbs(FSub(c.max, air.max)), RAbs(FSub(c.max, drill.max)))

use_clipped(air, drill) ==
    LET c == clipped_cluster(air)
    IN  /\ RLt(RAbs(FSub(c.min, air.min)), RAbs(FSub(c.min, drill.min)))
        /\ RLt(RAbs(FSub(c.max, air.max)), RAbs(FSub(c.max, drill.max)))

get_drill_or_clipped_cluster(air, drill) ==
    IF use_clipped(air, drill) THEN clipped_cluster(air) ELSE drill

(***************************************************************************)
(* TEPS.predict: [exc, p]                                                  *)
(***************************************************************************)
\* as predict_full, with a tie of the two distances read as "not engaged"
predict_full_tie_air(air, drill, stats) ==
    LET air_dist == compute_cluster_distance(air, stats)
        used == get_drill_or_clipped_cluster(air, drill)
        drill_dist == compute_cluster_distance(used, stats)
    IN  IF /\ init_mode = "min_distance"
           /\ RLt(RAbs(FSub(drill.mean, air.mean)), min_distance_threshold)
        THEN 0
        ELSE IF RLe(air_dist, drill_dist) THEN 0 ELSE 1

\* as predict_full, without the test of the distance of the tracked means
predict_full_ungated(air, drill, stats) ==
    LET air_dist == compute_cluster_distance(air, stats)
        used == get_drill_or_clipped_cluster(air, drill)
        drill_dist == compute_cluster_distance(used, stats)
    IN  IF RLt(air_dist, drill_dist) THEN 0 ELSE 1

\* the engagement bit for the statistics of a full window
predict_full(air, drill, stats) ==
    LET air_dist == compute_cluster_distance(air, stats)
        used == get_drill_or_clipped_cluster(air, drill)
        drill_dist == compute_cluster_distance(used, stats)
    IN  IF /\ init_mode = "min_distance"
           /\ RLt(RAbs(FSub(drill.mean, air.mean)), min_distance_threshold)
        THEN 0
        ELSE IF RLt(air_dist, drill_dist) THEN 0 ELSE 1

predict(air, drill, hist) ==
    IF Len(hist) < hist_size THEN [exc |-> "none", p |-> 0]
    ELSE
      LET stats == compute_rolling_stats(hist)
          err == cluster_distance_error(stats)
      IN  IF err # "none" THEN [exc |-> err, p |-> 0]
          ELSE [exc |-> "none", p |-> predict_full(air, drill, stats)]

(***************************************************************************)
(* TEPS.update: [exc, air, drill]                                          *)
(***************************************************************************)
\* as moved, with the learning rate taken after the decay step of the call
moved_decayed_rate(cluster, stats, rate) ==
    LET late == update_step_size(rate)
    IN  [cluster EXCEPT
           !.mean = FAdd(FMul(FSub(R(1), late), cluster.mean), FMul(late, stats[3])),
           !.min = FAdd(FMul(FSub(R(1), late), cluster.min), FMul(late, stats[1])),
           !.max = FAdd(FMul(FSub(R(1), late), cluster.max), FMul(late, stats[2]))]

\* the exponential step of one cluster towards the window statistics
moved(cluster, stats, rate) ==
    [cluster EXCEPT
       !.mean = FAdd(FMul(FSub(R(1), rate), cluster.mean), FMul(rate, stats[3])),
       !.min = FAdd(FMul(FSub(R(1), rate), cluster.min), FMul(rate, stats[1])),
       !.max = FAdd(FMul(FSub(R(1), rate), cluster.max), FMul(rate, stats[2]))]

\* as init_clusters, with the drill cluster offset by the whole threshold
init_clusters_whole_offset(air, drill, stats) ==
    LET offset == FMul(R(factor), RAbs(min_distance_threshold))
    IN  [exc |-> "none",
         air |-> [air EXCEPT !.mean = stats[3], !.min = stats[1],
                             !.max = stats[2], !.ready = TRUE],
         drill |-> [drill EXCEPT !.mean = FAdd(stats[3], offset),
                                 !.min = FAdd(stats[1], offset),
                                 !.max = FAdd(stats[2], offset)]]

\* as init_clusters, with the max of the drill cluster left as it was
init_clusters_keep_drill_max(air, drill, stats) ==
    LET offset == FMul(R(factor), RAbs(FDiv(min_distance_threshold, R(2))))
    IN  [exc |-> "none",
         air |-> [air EXCEPT !.mean = stats[3], !.min = stats[1],
                             !.max = stats[2], !.ready = TRUE],
         drill |-> [drill EXCEPT !.mean = FAdd(stats[3], offset),
                                 !.min = FAdd(stats[1], offset)]]

\* "Init clusters": both clusters are set from the window statistics
init_clusters(air, drill, stats) ==
    LET offset == FMul(R(factor), RAbs(FDiv(min_distance_threshold, R(2))))
    IN  [exc |-> "none",
         air |-> [air EXCEPT !.mean = stats[3], !.min = stats[1],
                             !.max = stats[2], !.ready = TRUE],
         drill |-> [drill EXCEPT !.mean = FAdd(stats[3], offset),
                                 !.min = FAdd(stats[1], offset),
                                 !.max = FAdd(stats[2], offset)]]

\* as update_closest, moving both clusters towards the window
update_both(air, drill, stats, rate) ==
    [exc |-> "none", air |-> moved(air, stats, rate),
     drill |-> moved(drill, stats, rate)]

\* the cluster closest to the window is moved, the air cluster on a tie
update_closest(air, drill, stats, rate) ==
    LET air_dist == compute_cluster_distance(air, stats)
        drill_dist == compute_cluster_distance(drill, stats)
    IN  IF RLe(air_dist, drill_dist)
        THEN [exc |-> "none", air |-> moved(air, stats, rate), drill |-> drill]
        ELSE [exc |-> "none", air |-> air, drill |-> moved(drill, stats, rate)]

\* as update, without the return on a window that is not full
update_partial_window(air, drill, hist, rate) ==
    LET stats == compute_rolling_stats(hist)
    IN  IF init_mode = "min_distance" /\ ~air.ready
        THEN init_clusters(air, drill, stats)
        ELSE IF cluster_distance_error(stats) # "none"
        THEN [exc |-> cluster_distance_error(stats), air |-> air, drill |-> drill]
        ELSE update_closest(air, drill, stats, rate)

update(air, drill, hist, rate) ==
    IF Len(hist) < hist_size THEN [exc |-> "none", air |-> air, drill |-> drill]
    ELSE
      LET stats == compute_rolling_stats(hist)
      IN  IF init_mode = "min_distance" /\ ~air.ready
          THEN init_clusters(air, drill, stats)
          ELSE IF cluster_distance_error(stats) # "none"
          THEN [exc |-> cluster_distance_error(stats), air |-> air, drill |-> drill]
          ELSE update_closest(air, drill, stats, rate)

(***************************************************************************)
(* TEPS.process_sample                                                     *)
(***************************************************************************)
\* as append, on a deque without maxlen
append_unbounded(hist, x) == Append(hist, x)

\* the deque(maxlen=hist_size) append: the oldest sample leaves a full buffer
append(hist, x) ==
    IF hist_size = 0 THEN hist
    ELSE IF Len(hist) >= hist_size THEN Append(Tail(hist), x)
    ELSE Append(hist, x)

\* the return value of a call that ends with predict on the given state
returned(air, drill, hist) ==
    LET r == predict(air, drill, hist)
    IN  IF r.exc # "none" THEN [exc |-> r.exc, p |-> 0, means |-> <<>>]
        ELSE [exc |-> "none", p |-> r.p, means |-> <<air.mean, drill.mean>>]

\* the fields process_sample reads and assigns
fields ==
    [air_cluster |-> air_cluster, drill_cluster |-> drill_cluster, a |-> a,
     start_index |-> start_index, x_hist |-> x_hist]

\* the fields of a TEPS instance constructed with the seeds given and the
\* rest of the configuration, with no call returned yet
new_instance(air_seed, drill_seed) ==
    [air_cluster |-> new_cluster(air_seed),
     drill_cluster |-> new_cluster(drill_seed),
     a |-> a_init, start_index |-> 0, x_hist |-> <<>>, ret |-> NoReturn]

\* as in_warm_up, one call short
in_warm_up_short(f) == ignore_start > f.start_index + 1

\* the call is one of the warm-up calls
in_warm_up(f) == ignore_start > f.start_index

\* as after_update, with the decay step left out while the buffer is not full
after_update_full_only(f, hist, u) ==
    [air_cluster |-> u.air, drill_cluster |-> u.drill,
     a |-> IF u.exc = "none" /\ Len(hist) = hist_size
           THEN update_step_size(f.a) ELSE f.a,
     start_index |-> f.start_index, x_hist |-> hist,
     ret |-> IF u.exc # "none"
             THEN [exc |-> u.exc, p |-> 0, means |-> <<>>]
             ELSE returned(u.air, u.drill, hist)]

\* the fields and the return value the rest of the call leaves, once update
\* has returned u for the buffer hist; an exception of update leaves
\* process_sample at once
after_update(f, hist, u) ==
    [air_cluster |-> u.air, drill_cluster |-> u.drill,
     a |-> IF u.exc = "none" THEN update_step_size(f.a) ELSE f.a,
     start_index |-> f.start_index, x_hist |-> hist,
     ret |-> IF u.exc # "none"
             THEN [exc |-> u.exc, p |-> 0, means |-> <<>>]
             ELSE returned(u.air, u.drill, hist)]

\* process_sample(x) on an instance with the fields f: the fields it leaves
\* and, as ret, what it returns
call(f, x) ==
    IF in_warm_up(f)
    THEN [air_cluster |-> f.air_cluster, drill_cluster |-> f.drill_cluster,
          a |-> f.a, start_index |-> f.start_index + 1, x_hist |-> f.x_hist,
          ret |-> returned(f.air_cluster, f.drill_cluster, f.x_hist)]
    ELSE after_update(f, append(f.x_hist, x),
                      update(f.air_cluster, f.drill_cluster,
                             append(f.x_hist, x), f.a))

process_sample(x) ==
    /\ Len(stream) < MaxCalls
    /\ stream' = Append(stream, x)
    /\ before' = fields
    /\ \E n \in {call(fields, x)} :
         /\ air_cluster' = n.air_cluster
         /\ drill_cluster' = n.drill_cluster
         /\ a' = n.a
         /\ start_index' = n.start_index
         /\ x_hist' = n.x_hist
         /\ ret' = n.ret
    /\ UNCHANGED <<config, label_vars>>

(***************************************************************************)
(* TEPS.get_phase_label                                                    *)
(***************************************************************************)
\* as rapid_traverse, without the abs: a fast downward feed is not caught
rapid_traverse_unsigned(fd) == fd > 1000

\* the feed of a rapid traverse
rapid_traverse(fd) == IAbs(fd) > 1000

\* as next_phase, with a standing feed (0) read as a downward one
next_phase_strict(ls, th, fd) ==
    IF ls = 0 THEN
        IF th = 1 /\ fd <= 0 THEN 2
        ELSE IF th = 1 THEN 4
        ELSE IF fd > 0 THEN 5
        ELSE 1
    ELSE IF ls = 1 THEN
        IF th < 1 /\ fd <= 0 THEN 1
        ELSE IF th < 1 /\ fd > 0 THEN 5
        ELSE 2
    ELSE IF ls = 2 \/ ls = 3 THEN
        IF th = 1 /\ fd <= 0 THEN 2
        ELSE IF th < 1 /\ fd <= 0 THEN 3
        ELSE IF fd > 0 /\ th = 1 THEN 4
        ELSE 5
    ELSE IF ls = 4 \/ ls = 5 THEN
        IF fd > 0 /\ th < 1 THEN 5
        ELSE IF fd > 0 /\ th = 1 THEN 4
        ELSE 1
    ELSE -1

\* as next_phase, with a loss of engagement on the way down from phase 1 read
\* as an unexpected drop
next_phase_drop_from_idle(ls, th, fd) ==
    IF ls = 0 THEN
        IF th = 1 /\ fd < 0 THEN 2
        ELSE IF th = 1 THEN 4
        ELSE IF fd >= 0 THEN 5
        ELSE 1
    ELSE IF ls = 1 THEN
        IF th < 1 /\ fd < 0 THEN 3
        ELSE IF th < 1 /\ fd >= 0 THEN 5
        ELSE 2
    ELSE IF ls = 2 \/ ls = 3 THEN
        IF th = 1 /\ fd < 0 THEN 2
        ELSE IF th < 1 /\ fd < 0 THEN 3
        ELSE IF fd >= 0 /\ th = 1 THEN 4
        ELSE 5
    ELSE IF ls = 4 \/ ls = 5 THEN
        IF fd >= 0 /\ th < 1 THEN 5
        ELSE IF fd >= 0 /\ th = 1 THEN 4
        ELSE 1
    ELSE -1

\* the branches on the previous phase
next_phase(ls, th, fd) ==
    IF ls = 0 THEN
        IF th = 1 /\ fd < 0 THEN 2
        ELSE IF th = 1 THEN 4
        ELSE IF fd >= 0 THEN 5
        ELSE 1
    ELSE IF ls = 1 THEN
        IF th < 1 /\ fd < 0 THEN 1
        ELSE IF th < 1 /\ fd >= 0 THEN 5
        ELSE 2
    ELSE IF ls = 2 \/ ls = 3 THEN
        IF th = 1 /\ fd < 0 THEN 2
        ELSE IF th < 1 /\ fd < 0 THEN 3
        ELSE IF fd >= 0 /\ th = 1 THEN 4
        ELSE 5
    ELSE IF ls = 4 \/ ls = 5 THEN
        IF fd >= 0 /\ th < 1 THEN 5
        ELSE IF fd >= 0 /\ th = 1 THEN 4
        ELSE 1
    ELSE -1  \* the function falls off its end and returns None

get_phase_label(ls, th, fd) ==
    IF rapid_traverse(fd) THEN 0 ELSE next_phase(ls, th, fd)

(***************************************************************************)
(* Specification of the classifier: a TEPS instance is constructed with a  *)
(* configuration, then process_sample is called with one sample at a time. *)
(***************************************************************************)
Init ==
    /\ \E c \in Profiles :
         /\ start_mean_air = c[1] /\ start_mean_drill = c[2] /\ weights = c[3]
         /\ a_init = c[4][1] /\ a_min = c[4][2] /\ decay_factor = c[4][3]
         /\ factor = c[5]
    /\ ignore_start \in 0..MaxIgnore
    /\ init_mode \in Modes
    /\ min_distance_threshold \in Thresholds
    /\ hist_size \in 1..MaxHist
    /\ air_cluster = new_cluster(start_mean_air)
    /\ drill_cluster = new_cluster(start_mean_drill)
    /\ a = a_init
    /\ start_index = 0
    /\ x_hist = <<>>
    /\ stream = <<>>
    /\ ret = NoReturn
    /\ mant_dig = 0
    /\ before = fields
    /\ other = new_instance(start_mean_air, start_mean_drill)
    /\ last_state = 0 /\ treshold = 0 /\ feed = 0 /\ phase = 0
    /\ label_pc = "idle"

ProcessSample == \E x \in Samples : process_sample(x) /\ UNCHANGED other

Next == ProcessSample

Spec == Init /\ [][Next]_vars

\* a call of process_sample, seen by its sample alone: the steps of Next are
\* the steps that append a sample to the stream
Called == Len(stream) < MaxCalls /\ \E x \in Samples : stream' = Append(stream, x)

\* process_sample keeps being called
SpecLive == Init /\ [][Next]_vars /\ WF_stream(Called)

(***************************************************************************)
(* Specification of the classifier in rounded arithmetic: floats of three  *)
(* significant bits, in place of the 53 of a Python float, next to the     *)
(* arithmetic without rounding. The configuration and the samples are      *)
(* floats of three bits.                                                   *)
(***************************************************************************)
MantDigs == {0, 3}

\* as Profiles: the default seeds and weights, and a rate that decays 1/2,
\* 3/8, 9/32 and is then floored (27/128 < a_min = 1/4) where no product is
\* rounded
FloatProfiles ==
    { << <<R(0), R(0), R(0)>>, <<Rat(-3, 2), Rat(-3, 2), Rat(-3, 2)>>,
         <<R(1), R(1), R(1)>>, <<Rat(1, 2), Rat(1, 4), Rat(3, 4)>> >> }

FloatSamples == {Rat(3, 2), R(0), R(-2)}

FloatInit ==
    /\ \E c \in FloatProfiles :
         /\ start_mean_air = c[1] /\ start_mean_drill = c[2] /\ weights = c[3]
         /\ a_init = c[4][1] /\ a_min = c[4][2] /\ decay_factor = c[4][3]
    /\ ignore_start \in 0..MaxIgnore
    /\ init_mode \in Modes
    /\ min_distance_threshold \in Thresholds
    /\ hist_size \in 1..MaxHist
    /\ factor = 1
    /\ mant_dig \in MantDigs
    /\ air_cluster = new_cluster(start_mean_air)
    /\ drill_cluster = new_cluster(start_mean_drill)
    /\ a = a_init
    /\ start_index = 0
    /\ x_hist = <<>>
    /\ stream = <<>>
    /\ ret = NoReturn
    /\ before = fields
    /\ other = new_instance(start_mean_air, start_mean_drill)
    /\ last_state = 0 /\ treshold = 0 /\ feed = 0 /\ phase = 0
    /\ label_pc = "idle"

FloatSample == \E x \in FloatSamples : process_sample(x) /\ UNCHANGED other

FloatNext == FloatSample

SpecFloat == FloatInit /\ [][FloatNext]_vars

(***************************************************************************)
(* Specification of two classifiers run side by side under init_mode       *)
(* min_distance: they are constructed with the same configuration but for  *)
(* the seeds, and every sample is passed to both.                          *)
(***************************************************************************)
\* (start_mean_air, start_mean_drill) of the second instance: the drill seed
\* lies above the air seed, and neither is a seed of Profiles
OtherSeeds == { << <<R(1), R(1), R(1)>>, <<R(2), R(4), R(3)>> >> }

PairInit ==
    /\ \E c \in Profiles :
         /\ start_mean_air = c[1] /\ start_mean_drill = c[2] /\ weights = c[3]
         /\ a_init = c[4][1] /\ a_min = c[4][2] /\ decay_factor = c[4][3]
    /\ ignore_start \in 0..MaxIgnore
    /\ init_mode = "min_distance"
    /\ min_distance_threshold \in Thresholds
    /\ hist_size \in 1..MaxHist
    /\ factor \in {1, -1}
    /\ air_cluster = new_cluster(start_mean_air)
    /\ drill_cluster = new_cluster(start_mean_drill)
    /\ a = a_init
    /\ start_index = 0
    /\ x_hist = <<>>
    /\ stream = <<>>
    /\ ret = NoReturn
    /\ mant_dig = 0
    /\ before = fields
    /\ \E s \in OtherSeeds : other = new_instance(s[1], s[2])
    /\ last_state = 0 /\ treshold = 0 /\ feed = 0 /\ phase = 0
    /\ label_pc = "idle"

\* one sample is passed to both instances
PairSample == \E x \in Samples : process_sample(x) /\ other' = call(other, x)

PairNext == PairSample

SpecPair == PairInit /\ [][PairNext]_vars

(***************************************************************************)
(* Specification of get_phase_label as a function of its arguments: the    *)
(* arguments are drawn, then the function is applied to them.              *)
(***************************************************************************)
LabelInit ==
    /\ start_mean_air = <<R(0), R(0), R(0)>>
    /\ start_mean_drill = <<Rat(-3, 2), Rat(-3, 2), Rat(-3, 2)>>
    /\ ignore_start = 0
    /\ init_mode = "fixed"
    /\ min_distance_threshold = Rat(1, 2)
    /\ hist_size = 1
    /\ weights = <<R(1), R(1), R(1)>>
    /\ factor = 1
    /\ a_init = Rat(1, 2) /\ a_min = Rat(1, 5) /\ decay_factor = Rat(1, 2)
    /\ air_cluster = new_cluster(start_mean_air)
    /\ drill_cluster = new_cluster(start_mean_drill)
    /\ a = a_init
    /\ start_index = 0
    /\ x_hist = <<>>
    /\ stream = <<>>
    /\ ret = NoReturn
    /\ mant_dig = 0
    /\ before = fields
    /\ other = new_instance(start_mean_air, start_mean_drill)
    /\ last_state \in 0..5
    /\ treshold \in {0, 1}
    /\ feed \in Feeds
    /\ phase = 0
    /\ label_pc = "call"

GetPhaseLabel ==
    /\ label_pc = "call"
    /\ phase' = get_phase_label(last_state, treshold, feed)
    /\ label_pc' = "returned"
    /\ UNCHANGED <<last_state, treshold, feed, config, teps_vars>>

LabelNext == GetPhaseLabel

SpecLabel == LabelInit /\ [][LabelNext]_vars

(***************************************************************************)
(* Specification of get_phase_label chained as the caller chains it: the   *)
(* first call gets last_phase 0, every later call the result of the call   *)
(* before it. The engagement bit and the feed of a call are any values:    *)
(* the bit comes from process_sample, the feed from the recorded data.     *)
(***************************************************************************)
ChainInit ==
    /\ start_mean_air = <<R(0), R(0), R(0)>>
    /\ start_mean_drill = <<Rat(-3, 2), Rat(-3, 2), Rat(-3, 2)>>
    /\ ignore_start = 0
    /\ init_mode = "min_distance"
    /\ min_distance_threshold = Rat(1, 2)
    /\ hist_size = 1
    /\ weights = <<R(1), R(1), R(1)>>
    /\ factor = 1
    /\ a_init = Rat(1, 2) /\ a_min = Rat(1, 5) /\ decay_factor = Rat(1, 2)
    /\ air_cluster = new_cluster(start_mean_air)
    /\ drill_cluster = new_cluster(start_mean_drill)
    /\ a = a_init
    /\ start_index = 0
    /\ x_hist = <<>>
    /\ stream = <<>>
    /\ ret = NoReturn
    /\ mant_dig = 0
    /\ before = fields
    /\ other = new_instance(start_mean_air, start_mean_drill)
    /\ last_state = 0 /\ treshold = 0 /\ feed = 0
    /\ phase = 0
    /\ label_pc = "chain"

\* phase = get_phase_label(last_phase, TE, feed); last_phase = phase
get_next_sample(TE, fd) ==
    /\ label_pc = "chain"
    /\ last_state' = phase
    /\ treshold' = TE
    /\ feed' = fd
    /\ phase' = get_phase_label(phase, TE, fd)
    /\ UNCHANGED <<label_pc, config, teps_vars>>

ChainNext == \E TE \in {0, 1}, fd \in Feeds : get_next_sample(TE, fd)

SpecChain == ChainInit /\ [][ChainNext]_vars

(***************************************************************************)
(* Specification of the classifier over the arguments __init__ accepts,    *)
(* those the design calls invalid included: weights that are all zero and  *)
(* an init_mode that is neither 'fixed' nor 'min_distance'.                *)
(***************************************************************************)
AnyWeights == { <<R(0), R(0), R(0)>>, <<R(1), R(1), R(1)>> }

AnyModes == Modes \cup {"auto"}

AnyInit ==
    /\ start_mean_air = <<R(0), R(0), R(0)>>
    /\ start_mean_drill = <<Rat(-3, 2), Rat(-3, 2), Rat(-3, 2)>>
    /\ ignore_start \in 0..MaxIgnore
    /\ init_mode \in AnyModes
    /\ min_distance_threshold \in Thresholds
    /\ hist_size \in 1..MaxHist
    /\ weights \in AnyWeights
    /\ factor = 1
    /\ a_init = Rat(1, 2) /\ a_min = Rat(1, 5) /\ decay_factor = Rat(1, 2)
    /\ init_exc = "none"
    /\ air_cluster = new_cluster(start_mean_air)
    /\ drill_cluster = new_cluster(start_mean_drill)
    /\ a = a_init
    /\ start_index = 0
    /\ x_hist = <<>>
    /\ stream = <<>>
    /\ ret = NoReturn
    /\ mant_dig = 0
    /\ before = fields
    /\ other = new_instance(start_mean_air, start_mean_drill)
    /\ last_state = 0 /\ treshold = 0 /\ feed = 0 /\ phase = 0
    /\ label_pc = "idle"

SpecAny == AnyInit /\ [][Next]_vars

(***************************************************************************)
(* The transition table of the phase state machine, row by row.            *)
(***************************************************************************)
TableRows ==
    { <<{0}, 1, "neg", 2>>, <<{0}, 1, "nonneg", 4>>,
      <<{0}, 0, "nonneg", 5>>, <<{0}, 0, "neg", 1>>,
      <<{1}, 0, "neg", 1>>, <<{1}, 0, "nonneg", 5>>,
      <<{1}, 1, "neg", 2>>, <<{1}, 1, "nonneg", 2>>,
      <<{2, 3}, 1, "neg", 2>>, <<{2, 3}, 0, "neg", 3>>,
      <<{2, 3}, 1, "nonneg", 4>>, <<{2, 3}, 0, "nonneg", 5>>,
      <<{4, 5}, 0, "nonneg", 5>>, <<{4, 5}, 1, "nonneg", 4>>,
      <<{4, 5}, 0, "neg", 1>>, <<{4, 5}, 1, "neg", 1>> }

FeedSign(fd) == IF fd < 0 THEN "neg" ELSE "nonneg"

\* the next_phase entries of the rows that match the arguments
TableNext(lp, engaged, fd) ==
    { row[4] : row \in { r \in TableRows :
                           lp \in r[1] /\ r[2] = engaged /\ r[3] = FeedSign(fd) } }

\* C1: for every last_phase in 0..5, engaged in {0,1} and feed with
\* |feed| <= 1000, get_phase_label returns exactly the next_phase of the
\* transition table (last_phase 0 being the initial row), and whatever the
\* feed, the result is an integer in 0..5.
C1_LabelFollowsTable ==
    label_pc = "returned" =>
        /\ phase \in 0..5
        /\ IAbs(feed) <= 1000 => TableNext(last_state, treshold, feed) = {phase}

\* a call from phase 2 with the tool disengaged and a downward feed has
\* returned phase 3, the unexpected drop
C1_Witness ==
    /\ label_pc = "returned"
    /\ last_state = 2 /\ treshold = 0 /\ feed = -5
    /\ phase = 3

\* C2: for every last_phase in 0..5 and engaged in {0,1}, get_phase_label
\* returns phase 0 whenever |feed| > 1000, for positive and negative feed alike.
C2_RapidTraverseOverride ==
    (label_pc = "returned" /\ IAbs(feed) > 1000) => phase = 0

\* a call with a fast downward feed and the tool engaged has returned phase 0
C2_Witness ==
    /\ label_pc = "returned"
    /\ feed = -2000 /\ treshold = 1 /\ last_state = 2
    /\ phase = 0

(***************************************************************************)
(* The window statistics and the weighted distance, as the design states   *)
(* them: the least and the greatest sample of the window and their         *)
(* average; (w1|x_mean - c_mean| + w2|x_min - c_min| + w3|x_max - c_max|)  *)
(* / (w1 + w2 + w3) for the weights (w1, w2, w3) of (mean, min, max).      *)
(***************************************************************************)
WindowSet == { x_hist[i] : i \in 1..Len(x_hist) }

WindowMin == CHOOSE m \in WindowSet : \A y \in WindowSet : RLe(m, y)

WindowMax == CHOOSE m \in WindowSet : \A y \in WindowSet : RLe(y, m)

WindowMean == RDiv(SeqSum(x_hist), R(Len(x_hist)))

\* (min, max, mean) of a cluster
Stats(c) == <<c.min, c.max, c.mean>>

\* the weighted distance of the window (min, max, mean) = st to the cluster c
WeightedDistance(c, st) ==
    RDiv(RAdd(RMul(weights[1], RAbs(RSub(st[3], c.mean))),
              RAdd(RMul(weights[2], RAbs(RSub(st[1], c.min))),
                   RMul(weights[3], RAbs(RSub(st[2], c.max))))),
         RAdd(weights[1], RAdd(weights[2], weights[3])))

\* the window is full after the last call
WindowFull == Len(stream) > 0 /\ Len(x_hist) = hist_size

\* the tracked cluster means are too close to discriminate
TooClose ==
    /\ init_mode = "min_distance"
    /\ RLt(RAbs(RSub(drill_cluster.mean, air_cluster.mean)), min_distance_threshold)

AirDistance == WeightedDistance(air_cluster, <<WindowMin, WindowMax, WindowMean>>)

DrillDistance ==
    WeightedDistance(get_drill_or_clipped_cluster(air_cluster, drill_cluster),
                     <<WindowMin, WindowMax, WindowMean>>)

ZeroStreamExample ==
    /\ hist_size = 3 /\ ignore_start = 0 /\ init_mode = "fixed"
    /\ weights = <<R(1), R(1), R(1)>> /\ factor = 1
    /\ start_mean_air = <<R(0), R(0), R(0)>>
    /\ start_mean_drill = <<Rat(-3, 2), Rat(-3, 2), Rat(-3, 2)>>
    /\ \A i \in 1..Len(stream) : stream[i] = R(0)

\* C4: with hist_size 3, ignore_start 0, init_mode fixed, seeds (0,0,0) and
\* (-1.5,-1.5,-1.5) and the stream [0,0,0,0,0], every prediction from the
\* third sample onward is engaged = 0.
C4_ZeroStreamNotEngaged ==
    (ZeroStreamExample /\ Len(stream) >= 3) => ret.p = 0

\* the last call of process_sample came after the warm-up and evaluated a
\* full window
FullWindowCall ==
    /\ Len(stream) > 0
    /\ ~(ignore_start > before.start_index)
    /\ Len(x_hist) = hist_size

\* that call took the "Init clusters" branch
SeedingCall ==
    FullWindowCall /\ init_mode = "min_distance" /\ ~before.air_cluster.ready

\* distances of the window of the call to the clusters as they were before it
AirDistanceBefore ==
    WeightedDistance(before.air_cluster, <<WindowMin, WindowMax, WindowMean>>)

DrillDistanceBefore ==
    WeightedDistance(before.drill_cluster, <<WindowMin, WindowMax, WindowMean>>)

AirUntouched == Stats(air_cluster) = Stats(before.air_cluster)

DrillUntouched == Stats(drill_cluster) = Stats(before.drill_cluster)

\* the cluster has been moved: it has changed, unless it already was at the
\* window statistics
AirUpdated ==
    Stats(before.air_cluster) # <<WindowMin, WindowMax, WindowMean>>
        => ~AirUntouched

DrillUpdated ==
    Stats(before.drill_cluster) # <<WindowMin, WindowMax, WindowMean>>
        => ~DrillUntouched

\* C5 as stated: in every post-warm-up call that evaluates a full window, in
\* either init mode, the cluster nearer to the window statistics is the one
\* updated and the min, max and mean of the other are untouched.
C5_OneClusterUpdatedEveryCall ==
    FullWindowCall =>
        /\ AirUntouched \/ DrillUntouched
        /\ RLt(AirDistanceBefore, DrillDistanceBefore) => DrillUntouched
        /\ RLt(DrillDistanceBefore, AirDistanceBefore) => AirUntouched

\* C5 amended: in every post-warm-up call that evaluates a full window, except
\* the min_distance seeding call, the cluster nearer to the window statistics
\* (the air cluster on a tie) is updated and the min, max and mean of the other
\* are untouched.
C5_OneClusterUpdated ==
    (FullWindowCall /\ ~SeedingCall) =>
        IF RLe(AirDistanceBefore, DrillDistanceBefore)
        THEN AirUpdated /\ DrillUntouched
        ELSE DrillUpdated /\ AirUntouched

\* under fixed seeds the first full window has moved the drill cluster and left
\* the air cluster at its seed
C5_Witness ==
    /\ FullWindowCall /\ ~SeedingCall
    /\ init_mode = "fixed"
    /\ Len(stream) = ignore_start + hist_size
    /\ AirUntouched /\ ~DrillUntouched
    /\ RLt(DrillDistanceBefore, AirDistanceBefore)

\* the last call flipped the ready flag of the air cluster
ReadyFlipped == ~before.air_cluster.ready /\ air_cluster.ready

\* the offset of the seeded drill cluster
SeedOffset == RMul(R(factor), RDiv(RAbs(min_distance_threshold), R(2)))

\* C6: under init_mode min_distance the ready flag of the air cluster changes
\* from false to true exactly once and never back, in call number ignore_start
\* + hist_size, the first after which the window holds hist_size samples; in
\* that call the air cluster is set to the window's (min, max, mean) and the
\* drill cluster to those values each offset by factor * |threshold| / 2.
C6_ReadyFlipsOnceAndSeeds ==
    init_mode = "min_distance" =>
        /\ air_cluster.ready <=> Len(stream) >= ignore_start + hist_size
        /\ before.air_cluster.ready => air_cluster.ready
        /\ ReadyFlipped =>
             /\ Len(stream) = ignore_start + hist_size
             /\ Len(x_hist) = hist_size
             /\ Stats(air_cluster) = <<WindowMin, WindowMax, WindowMean>>
             /\ Stats(drill_cluster) = <<RAdd(WindowMin, SeedOffset),
                                         RAdd(WindowMax, SeedOffset),
                                         RAdd(WindowMean, SeedOffset)>>

\* after one warm-up call and two samples that differ, the flag has just flipped
C6_Witness ==
    /\ init_mode = "min_distance"
    /\ ReadyFlipped
    /\ ignore_start = 1 /\ hist_size = 2
    /\ WindowMin # WindowMax

\* C7: each of the first ignore_start calls only increments the warm-up
\* counter: the window, both clusters and the learning rate are unchanged, and
\* the call returns prediction 0 with the initial (air_mean, drill_mean).
C7_WarmUpOnlyCounts ==
    (Len(stream) >= 1 /\ Len(stream) <= ignore_start) =>
        /\ start_index = before.start_index + 1
        /\ x_hist = before.x_hist /\ x_hist = <<>>
        /\ air_cluster = before.air_cluster
        /\ air_cluster = new_cluster(start_mean_air)
        /\ drill_cluster = before.drill_cluster
        /\ drill_cluster = new_cluster(start_mean_drill)
        /\ a = before.a /\ a = a_init
        /\ ret = [exc |-> "none", p |-> 0,
                  means |-> <<start_mean_air[3], start_mean_drill[3]>>]

\* the one warm-up call of a configuration with ignore_start = 1 has returned
C7_Witness ==
    /\ ignore_start = 1 /\ Len(stream) = 1
    /\ start_index = 1 /\ before.start_index = 0
    /\ ret.exc = "none" /\ ret.p = 0

IMin(m, n) == IF m < n THEN m ELSE n

IMax(m, n) == IF m < n THEN n ELSE m

\* C8: the window never holds more than hist_size samples; it holds the
\* post-warm-up samples until there are hist_size of them and exactly
\* hist_size after every later call, always the latest ones in arrival order.
C8_WindowBounded ==
    /\ Len(x_hist) <= hist_size
    /\ Len(x_hist) = IMin(hist_size, IMax(0, Len(stream) - ignore_start))
    /\ x_hist = SubSeq(stream, Len(stream) - Len(x_hist) + 1, Len(stream))

\* a call on a full window of two has evicted a sample that differs from the
\* one now oldest
C8_Witness ==
    /\ hist_size = 2 /\ ignore_start = 1
    /\ Len(stream) = 4 /\ Len(x_hist) = 2
    /\ before.x_hist = <<stream[2], stream[3]>>
    /\ x_hist = <<stream[3], stream[4]>>
    /\ stream[2] # stream[3]

\* C9: for 0 < a_min <= a_init and 0 < decay_factor < 1, the learning rate is
\* non-increasing from one call to the next and never below a_min.
C9_RateDecaysToFloor ==
    (/\ RLt(R(0), a_min) /\ RLe(a_min, a_init)
     /\ RLt(R(0), decay_factor) /\ RLt(decay_factor, R(1))) =>
        /\ RLe(a, before.a)
        /\ RLe(a_min, a)
        /\ RLe(a_min, before.a)

\* the last call has floored the rate: the decayed rate was below a_min
C9_Witness ==
    /\ Len(stream) > 0
    /\ RLt(RMul(before.a, decay_factor), a_min)
    /\ RLt(a, before.a)
    /\ a = a_min

\* C10: every call that leaves the window empty or with fewer than hist_size
\* samples completes without failing, returns the default prediction 0 and
\* updates no cluster: both clusters still equal their configured seeds.
C10_PartialWindowDefault ==
    (Len(stream) > 0 /\ Len(x_hist) < hist_size) =>
        /\ ret.exc = "none"
        /\ ret.p = 0
        /\ ret.means = <<start_mean_air[3], start_mean_drill[3]>>
        /\ air_cluster = new_cluster(start_mean_air)
        /\ drill_cluster = new_cluster(start_mean_drill)

\* past the warm-up, a window of capacity three holds two samples
C10_Witness ==
    /\ hist_size = 3 /\ ignore_start = 1
    /\ Len(stream) = 3 /\ Len(x_hist) = 2
    /\ ret.exc = "none" /\ ret.p = 0

\* C11: constructing the classifier with all three distance weights equal to
\* zero is rejected at construction with a configuration error: no instance
\* is produced, and no later process_sample call raises the zero division.
C11_ZeroWeightsRejected ==
    weights = <<R(0), R(0), R(0)>> =>
        /\ init_exc # "none"
        /\ ret.exc # "ZeroDivisionError"

\* C12: constructing the classifier with an init_mode other than 'fixed' or
\* 'min_distance' fails at construction with a configuration error: no
\* instance is produced, and no later process_sample call returns a
\* prediction as if a default mode had been given.
C12_UnknownModeRejected ==
    init_mode \notin {"fixed", "min_distance"} =>
        /\ init_exc # "none"
        /\ ret.exc # "none"

\* (1 - rate) * old + rate * stat
Blend(old, stat, rate) == RAdd(RMul(RSub(R(1), rate), old), RMul(rate, stat))

\* the (min, max, mean) of the cluster c blended with those of the window
Blended(c, rate) ==
    <<Blend(c.min, WindowMin, rate), Blend(c.max, WindowMax, rate),
      Blend(c.mean, WindowMean, rate)>>

\* C13: in a non-seeding update on a full window the distances are those to
\* the tracked (un-clipped) clusters; the cluster with the smaller-or-equal
\* distance (the air cluster on a tie) gets each of mean, min and max replaced
\* by (1 - a) * old + a * window_stat, a being the learning rate as it stood
\* before the decay step of this call; the other cluster is left unchanged.
C13_NearerClusterBlended ==
    (FullWindowCall /\ ~SeedingCall) =>
        IF RLe(AirDistanceBefore, DrillDistanceBefore)
        THEN /\ Stats(air_cluster) = Blended(before.air_cluster, before.a)
             /\ DrillUntouched
        ELSE /\ Stats(drill_cluster) = Blended(before.drill_cluster, before.a)
             /\ AirUntouched

\* a full window nearer to the tracked air cluster has moved that cluster, in
\* a call whose decay step changed the learning rate
C13_Witness ==
    /\ FullWindowCall /\ ~SeedingCall
    /\ RLt(AirDistanceBefore, DrillDistanceBefore)
    /\ ~AirUntouched /\ DrillUntouched
    /\ a # before.a

\* the offset of the clipped cluster: factor * 2 * |air.min - air.max|
ClipShift ==
    RMul(R(factor), RMul(R(2), RAbs(RSub(air_cluster.min, air_cluster.max))))

\* the mean, min and max of cluster c, each offset by shift
Offset(c, shift) ==
    [min |-> RAdd(c.min, shift), max |-> RAdd(c.max, shift),
     mean |-> RAdd(c.mean, shift)]

\* the air cluster's mean, min and max, each offset by ClipShift
Clipped == Offset(air_cluster, ClipShift)

\* both bounds of cluster c are closer to the air cluster's than to the tracked
\* drill cluster's
CloserToAir(c) ==
    /\ RLt(RAbs(RSub(c.min, air_cluster.min)),
           RAbs(RSub(c.min, drill_cluster.min)))
    /\ RLt(RAbs(RSub(c.max, air_cluster.max)),
           RAbs(RSub(c.max, drill_cluster.max)))

\* both bounds of the clipped cluster are closer to the air cluster's than to
\* the tracked drill cluster's
ClippedCloser == CloserToAir(Clipped)

\* (min, max, mean) of the clipped cluster c if its bounds are closer to the
\* air cluster's, of the tracked drill cluster if not
ClippedOrTracked(c) == IF CloserToAir(c) THEN Stats(c) ELSE Stats(drill_cluster)

\* the (min, max, mean) the prediction is to measure the drill distance to
UsedDrill == ClippedOrTracked(Clipped)

\* the distance of the window to the cluster of (min, max, mean) st
DistanceTo(st) ==
    WeightedDistance([min |-> st[1], max |-> st[2], mean |-> st[3]],
                     <<WindowMin, WindowMax, WindowMean>>)

\* the distance of the window to that cluster
UsedDrillDistance == DistanceTo(UsedDrill)

\* the (min, max, mean) of the tracked drill cluster as the update of the last
\* call alone leaves them
DrillAfterUpdate ==
    IF ~FullWindowCall THEN Stats(before.drill_cluster)
    ELSE IF SeedingCall
    THEN <<RAdd(WindowMin, SeedOffset), RAdd(WindowMax, SeedOffset),
           RAdd(WindowMean, SeedOffset)>>
    ELSE IF RLe(AirDistanceBefore, DrillDistanceBefore)
    THEN Stats(before.drill_cluster)
    ELSE Blended(before.drill_cluster, before.a)

\* the distance of the window to the tracked drill cluster after the call
TrackedDrillDistance ==
    WeightedDistance(drill_cluster, <<WindowMin, WindowMax, WindowMean>>)

\* C14: for prediction the drill cluster used is the clipped cluster (the air
\* cluster's mean, min and max each offset by factor * 2 * |air.min - air.max|)
\* exactly when both bounds of the clipped cluster are closer to the air
\* cluster's than to the tracked drill cluster's, and the tracked drill cluster
\* otherwise; the substitution is for that prediction only: after every call
\* the tracked drill cluster holds what the update left, never the clipped
\* values.
C14_ClippedForPredictionOnly ==
    Len(stream) > 0 =>
        /\ Stats(get_drill_or_clipped_cluster(air_cluster, drill_cluster)) = UsedDrill
        /\ (WindowFull /\ ~TooClose) =>
              ret.p = IF RLe(UsedDrillDistance, AirDistance) THEN 1 ELSE 0
        /\ Stats(drill_cluster) = DrillAfterUpdate

\* a full window was classified as engaged by its distance to the clipped
\* cluster, where the tracked drill cluster, which is farther than the air
\* cluster, would have given 0; the tracked drill cluster is as it was
C14_Witness ==
    /\ WindowFull /\ ~TooClose
    /\ ClippedCloser
    /\ Stats(Clipped) # Stats(drill_cluster)
    /\ RLt(AirDistance, TrackedDrillDistance)
    /\ ret.p = 1
    /\ DrillUntouched

\* the distance of the tracked cluster means after the last call
MeansApart == RAbs(RSub(drill_cluster.mean, air_cluster.mean))

\* C17: under init_mode min_distance with min_distance_threshold > 0 the call
\* that seeds the clusters returns 0 itself, the seeded means being less than
\* the threshold apart; so each of the first ignore_start +
\* hist_size calls returns 0, and a 1 is returned only after a later,
\* distance-based update, with the tracked means at least the threshold apart.
C17_SeedingCallNotEngaged ==
    (/\ init_mode = "min_distance"
     /\ RLt(R(0), min_distance_threshold)
     /\ Len(stream) > 0) =>
        /\ SeedingCall =>
             /\ RLt(MeansApart, min_distance_threshold)
             /\ ret.p = 0
        /\ Len(stream) <= ignore_start + hist_size => ret.p = 0
        /\ ret.p = 1 =>
             /\ Len(stream) > ignore_start + hist_size
             /\ ~SeedingCall
             /\ RLe(min_distance_threshold, MeansApart)

\* the seeding call has returned 0 for a window that is as near to the drill
\* cluster used for prediction as to the air cluster
C17_Witness ==
    /\ init_mode = "min_distance"
    /\ SeedingCall
    /\ Len(stream) = ignore_start + hist_size
    /\ RLe(UsedDrillDistance, AirDistance)
    /\ ret.p = 0

\* C18: when get_phase_label is chained as the caller chains it (last_phase 0
\* at first, then the previous result), a phase 3 (unexpected drop) is
\* immediately preceded by phase 2 or phase 3: it is never produced directly
\* after phase 0, 1, 4 or 5.
C18_DropOnlyAfterDrilling ==
    (label_pc = "chain" /\ phase = 3) => last_state \in {2, 3}

\* a drop has followed a drop
C18_Witness ==
    /\ label_pc = "chain"
    /\ phase = 3 /\ last_state = 3
    /\ treshold = 0 /\ feed < 0

\* C16: for 0 < a_min <= a_init and 0 < decay_factor < 1, if process_sample
\* keeps being called, the learning rate a eventually is exactly a_min and
\* equals a_min in every later state.
C16_RateSettlesAtFloor == <>[](a = a_min)

\* the rate, started above a_min, has been at a_min over a whole call
C16_Witness ==
    /\ RLt(a_min, a_init)
    /\ before.a = a_min /\ a = a_min
    /\ Len(stream) > 0 /\ ~(ignore_start > before.start_index)

\* C20: under init_mode min_distance the engagement bits returned do not
\* depend on start_mean_air or start_mean_drill: two instances that differ
\* only in those seeds and are passed the same samples return the same bit at
\* every call, and hold identical cluster values from the seeding call onward.
C20_BitsIndependentOfSeeds ==
    (init_mode = "min_distance" /\ Len(stream) > 0) =>
        /\ other.ret.exc = ret.exc
        /\ other.ret.p = ret.p
        /\ Len(stream) >= ignore_start + hist_size =>
             /\ Stats(other.air_cluster) = Stats(air_cluster)
             /\ Stats(other.drill_cluster) = Stats(drill_cluster)

\* after the seeding call and a distance-based update both instances, whose
\* seeds differ, have returned 1 and hold the same cluster values
C20_Witness ==
    /\ init_mode = "min_distance"
    /\ Len(stream) > ignore_start + hist_size
    /\ ret.p = 1 /\ other.ret.p = 1
    /\ Stats(other.air_cluster) = Stats(air_cluster)
    /\ Stats(other.drill_cluster) = Stats(drill_cluster)
    /\ <<start_mean_air, start_mean_drill>> \notin OtherSeeds

\* the number of calls so far that came after the warm-up
PostWarmUpCalls == IMax(0, Len(stream) - ignore_start)

RMax(x, y) == IF RLt(x, y) THEN y ELSE x

\* x^n, exactly
RECURSIVE RPow(_, _)
RPow(x, n) == IF n = 0 THEN R(1) ELSE RMul(x, RPow(x, n - 1))

\* max(a_min, a_init * decay_factor^n), exactly
ClosedFormRate(n) == RMax(a_min, RMul(a_init, RPow(decay_factor, n)))

\* one decay step: the float product, floored at a_min
DecayedOnce(rate) == RMax(a_min, FMul(rate, decay_factor))

\* n decay steps from a_init
RECURSIVE DecayedTimes(_)
DecayedTimes(n) == IF n = 0 THEN a_init ELSE DecayedOnce(DecayedTimes(n - 1))

\* the last call was one of the warm-up calls
WarmUpCall == Len(stream) > 0 /\ ignore_start > before.start_index

\* the last call came after the warm-up
PostWarmUpCall == Len(stream) > 0 /\ ~(ignore_start > before.start_index)

\* C15 as stated: the learning rate is decayed exactly once per post-warm-up
\* call (multiplied by decay_factor and floored at a_min), calls on a window
\* that is not full and the seeding call included, never during the first
\* ignore_start calls, and after n post-warm-up calls a equals
\* max(a_min, a_init * decay_factor^n).
C15_RateClosedForm ==
    /\ WarmUpCall => a = before.a
    /\ PostWarmUpCall => a = DecayedOnce(before.a)
    /\ a = ClosedFormRate(PostWarmUpCalls)

\* C15 amended: the learning rate is decayed exactly once per post-warm-up
\* call (multiplied by decay_factor and floored at a_min), calls on a window
\* that is not full and the seeding call included, never during the first
\* ignore_start calls; after n post-warm-up calls a is the result of n such
\* steps from a_init, each product rounded to a float, which is
\* max(a_min, a_init * decay_factor^n) where no product is rounded.
C15_RateDecayedOncePerCall ==
    /\ WarmUpCall => a = before.a
    /\ PostWarmUpCall => a = DecayedOnce(before.a)
    /\ a = DecayedTimes(PostWarmUpCalls)
    /\ mant_dig = 0 => a = ClosedFormRate(PostWarmUpCalls)

\* in rounded arithmetic a call on a window that is not full has decayed the
\* rate to a float that is not max(a_min, a_init * decay_factor^n)
C15_Witness ==
    /\ PostWarmUpCall
    /\ Len(x_hist) < hist_size
    /\ mant_dig # 0
    /\ a # before.a
    /\ a # ClosedFormRate(PostWarmUpCalls)

\* min <= mean <= max in the cluster c
Ordered(c) == RLe(c.min, c.mean) /\ RLe(c.mean, c.max)

\* both configured seeds are ordered and 0 < a_min <= a_init <= 1
OrderedSeeds ==
    /\ RLe(start_mean_air[1], start_mean_air[3])
    /\ RLe(start_mean_air[3], start_mean_air[2])
    /\ RLe(start_mean_drill[1], start_mean_drill[3])
    /\ RLe(start_mean_drill[3], start_mean_drill[2])
    /\ RLt(R(0), a_min) /\ RLe(a_min, a_init) /\ RLe(a_init, R(1))

\* C19 as stated: if both configured seeds satisfy min <= mean <= max and
\* 0 < a_min <= a_init <= 1, then after any sequence of process_sample calls,
\* in either init mode, both clusters satisfy min <= mean <= max.
C19_ClustersOrdered ==
    OrderedSeeds => (Ordered(air_cluster) /\ Ordered(drill_cluster))

\* C19 amended: if both configured seeds satisfy min <= mean <= max and
\* 0 < a_min <= a_init <= 1, then after any sequence of process_sample calls,
\* in either init mode, both clusters satisfy min <= max, and min <= mean <=
\* max where no arithmetic result is rounded; a window mean that is rounded
\* can leave the range of the window, and the cluster mean then the range from
\* min to max.
C19_BoundsOrdered ==
    OrderedSeeds =>
        /\ RLe(air_cluster.min, air_cluster.max)
        /\ RLe(drill_cluster.min, drill_cluster.max)
        /\ mant_dig = 0 => (Ordered(air_cluster) /\ Ordered(drill_cluster))

\* in rounded arithmetic the seeding call has set the air cluster from a
\* constant window, with a mean below the min
C19_Witness ==
    /\ OrderedSeeds
    /\ mant_dig # 0
    /\ SeedingCall
    /\ WindowMin = WindowMax
    /\ air_cluster.min = air_cluster.max
    /\ RLt(air_cluster.mean, air_cluster.min)

====
